---- MODULE Spec2Model ----
(***************************************************************************)
(* Model of lc0crawl/main.py: the job loop of the __main__ block, the      *)
(* weights-file handling around it, parse_info_line and the two analysis   *)
(* passes of run_lc0_on_position, and the results table they write.        *)
(*                                                                         *)
(* Numbers the engine prints are kept in units of 1/Scale, so that the     *)
(* values used here (multiples of 1/4) are exact in binary floating point  *)
(* as well; a policy is printed as a percentage and converted by the       *)
(* parser.  None is the empty tuple, a present value v is <<v>>.           *)
(***************************************************************************)
EXTENDS Integers, Sequences, FiniteSets, TLC

\* Bounds of the model: rows of the jobs table, and lines one engine run emits.
NumJobs == 2
MaxLines == 2

\* Unit of the fixed-point representation of the engine's numbers.
Scale == 4
\* last_network = None, and "no job selected yet".
NoNetwork == 0
NoJob == 0

Jobs == 1..NumJobs
\* Network identifiers: an older and a newer network.  Job.network is a String
\* column; for one-digit identifiers its order is the numeric one.
Networks == {1, 2}
Moves == {"e2e4", "d2d4"}

None == <<>>
Some(v) == <<v>>

VARIABLES
    jobNet,         \* Job.network of every row of the jobs table
    catalog,        \* the "Number" column of networks_df
    disk,           \* names of the weights files in the working directory
    last_network,   \* the variable of the __main__ block
    store,          \* committed rows of the results table, per job
    pending,        \* rows added to the session and not yet committed
    pc,             \* position of the program
    job,            \* the job the loop selected last
    results,        \* the dict of run_lc0_on_position
    nlines,         \* lines the engine of the current pass has emitted
    alive,          \* engine processes launched and not yet quit
    exc,            \* the exception that ended the run, if any
    line,           \* the engine line being handled when the run ended
    called,         \* jobs run_lc0_on_position has been called for
    prevNet,        \* network of the job of the previous iteration
    seen1,          \* per job: move -> policy reported by its last pass 1
    seen2,          \* per job: moves reported by its last pass 2
    built           \* per job: the rows its last run handed to the session

vars == <<jobNet, catalog, disk, last_network, store, pending, pc, job, results,
          nlines, alive, exc, line, called, prevNet, seen1, seen2, built>>

Empty == [x \in {} |-> None]
NoExc == [type |-> "", at |-> ""]
NoLine == [string |-> FALSE, node |-> FALSE, move |-> "", groups |-> <<>>]

----------------------------------------------------------------------------
\* Engine output lines.

\* A printed value: the sentinel -.- or a number.
Sentinel == [sentinel |-> TRUE, n |-> 0]
Num(n) == [sentinel |-> FALSE, n |-> n]

Group(k, v) == [key |-> k, val |-> v]

\* A per-move statistics line "<move> (P: p%) (WL: wl) (D: d) (M: m) (Q: q)".
MoveLine(m, p, wl, d, mm, q) ==
    [string |-> TRUE, node |-> FALSE, move |-> m,
     groups |-> <<Group("P", p), Group("WL", wl), Group("D", d),
                  Group("M", mm), Group("Q", q)>>]

\* An info record without a "string" entry, and the "node" summary line.
PlainInfo == [string |-> FALSE, node |-> FALSE, move |-> "", groups |-> <<>>]
NodeLine == [string |-> TRUE, node |-> TRUE, move |-> "node",
             groups |-> <<Group("P", Num(100))>>]

\* Lines with every statistic present: WL = 0 and D = 1 (a certain draw) for
\* e2e4, WL = -1 and D = 1 for d2d4.
FullLines ==
    {MoveLine("e2e4", Num(50), Num(0), Num(Scale), Num(1), Num(0)),
     MoveLine("d2d4", Num(50), Num(-Scale), Num(Scale), Num(1), Num(-Scale))}

\* Lines with one statistic printed as the sentinel -.-
SentinelLines ==
    {MoveLine("e2e4", Sentinel, Num(0), Num(Scale), Num(1), Num(0)),
     MoveLine("e2e4", Num(50), Sentinel, Num(Scale), Num(1), Num(0)),
     MoveLine("e2e4", Num(50), Num(0), Sentinel, Num(1), Num(0)),
     MoveLine("e2e4", Num(50), Num(0), Num(Scale), Sentinel, Num(0)),
     MoveLine("e2e4", Num(50), Num(0), Num(Scale), Num(1), Sentinel)}

EngineLines == {PlainInfo, NodeLine} \cup FullLines \cup SentinelLines

----------------------------------------------------------------------------
\* parse_info_line

Put(f, k, v) == [x \in DOMAIN f \cup {k} |-> IF x = k THEN v ELSE f[x]]

ParseValue(key, val) ==
    IF key = "P" THEN (val.n * Scale) \div 100 ELSE val.n

RECURSIVE ParseGroups(_, _)
ParseGroups(groups, values) ==
    IF groups = <<>> THEN values
    ELSE LET g == Head(groups) IN
         ParseGroups(Tail(groups),
                     IF g.val.sentinel THEN values
                     ELSE Put(values, g.key, ParseValue(g.key, g.val)))

parse_info_line(s) == [move |-> s.move, values |-> ParseGroups(s.groups, Empty)]

\* The filter both passes apply before parsing a line.
IsMoveLine(l) == l.string /\ ~l.node

----------------------------------------------------------------------------
\* Statistic derivation of pass 2 (W and L from WL and D).

WinProb(wl, d) == (wl - d + Scale) \div 2
LossProb(d, w) == Scale - d - w

\* A record whose statistics start at 0 instead of None.
InitRecordZeroed(move, policy) ==
    [move |-> move, policy |-> policy, q_value |-> Some(0),
     W |-> Some(0), D |-> Some(0), L |-> Some(0), M |-> Some(0)]

\* The record pass 1 creates for a move.
InitRecord(move, policy) ==
    [move |-> move, policy |-> policy, q_value |-> None,
     W |-> None, D |-> None, L |-> None, M |-> None]

\* The assignments pass 2 makes to the record of a move.
FillRecord(rec, values) ==
    LET d == values["D"]
        w == WinProb(values["WL"], d)
        l == LossProb(d, w)
    IN  [rec EXCEPT !.q_value = Some(values["Q"]), !.W = Some(w),
                    !.D = Some(d), !.L = Some(l), !.M = Some(values["M"])]

Rows(res) == {res[m] : m \in DOMAIN res}

----------------------------------------------------------------------------
\* The job query, the weights files and the session.

\* The query without its filter.
AllJobs == Jobs

\* session.query(Job).filter(Job.results == None)
JobsWithoutResults == {j \in Jobs : store[j] = {}}

\* order_by(Job.network.desc()).first(): a job of the greatest network; the
\* order among jobs of one network is the database's choice.
FirstJobs(cands) == {j \in cands : \A k \in cands : jobNet[k] <= jobNet[j]}

\* Path.unlink inside try/except: a missing file (also "./None") is ignored.
Unlink(d, name) == d \ {name}

\* download_network: writes the file named by the network number.
DownloadNetwork(d, number) == d \cup {number}

\* A commit that writes the row of one move only.
CommitOneMove(st, j, rows) == [st EXCEPT ![j] = @ \cup {r \in rows : r.move = "e2e4"}]

\* session.commit(): the pending rows of the job become rows of the table.
CommitRows(st, j, rows) == [st EXCEPT ![j] = @ \cup rows]

\* An exception that nothing catches: it leaves run_lc0_on_position (whose
\* locals are gone with its frame, and with them the record of what the
\* passes of this run reported) and the loop, and the program ends.
Raise(type, l) ==
    /\ pc' = "raised"
    /\ exc' = [type |-> type, at |-> pc]
    /\ line' = l
    /\ results' = Empty
    /\ nlines' = 0
    /\ seen1' = [seen1 EXCEPT ![job] = Empty]
    /\ seen2' = [seen2 EXCEPT ![job] = {}]

----------------------------------------------------------------------------
\* The jobs table: a network for every job.  Jobs are numbered by network,
\* greatest first; the numbering carries no meaning in the program.
JobTables == {f \in [Jobs -> Networks] :
                \A j, k \in Jobs : j < k => f[j] >= f[k]}

\* The catalog lists every network, or every network but the oldest.
Catalogs == {Networks, Networks \ {1}}

Init ==
    /\ jobNet \in JobTables
    /\ catalog \in Catalogs
    /\ disk \in SUBSET Networks
    /\ last_network = NoNetwork
    /\ store = [j \in Jobs |-> {}]
    /\ pending = {}
    /\ pc = "loop"
    /\ job = NoJob
    /\ results = Empty
    /\ nlines = 0
    /\ alive = 0
    /\ exc = NoExc
    /\ line = NoLine
    /\ called = {}
    /\ prevNet = NoNetwork
    /\ seen1 = [j \in Jobs |-> Empty]
    /\ seen2 = [j \in Jobs |-> {}]
    /\ built = [j \in Jobs |-> {}]

\* The query finds a job.
SelectJob ==
    /\ pc = "loop"
    /\ JobsWithoutResults # {}
    /\ \E j \in FirstJobs(JobsWithoutResults) : job' = j
    /\ prevNet' = IF job = NoJob THEN NoNetwork ELSE jobNet[job]
    /\ pc' = "net"
    /\ UNCHANGED <<jobNet, catalog, disk, last_network, store, pending, results,
                   nlines, alive, exc, line, called, seen1, seen2, built>>

\* The query finds none: sys.exit(0).
ExitNoJob ==
    /\ pc = "loop"
    /\ JobsWithoutResults = {}
    /\ pc' = "exited"
    /\ UNCHANGED <<jobNet, catalog, disk, last_network, store, pending, job,
                   results, nlines, alive, exc, line, called, prevNet, seen1,
                   seen2, built>>

\* The weights file of the job exists.
NetworkPresent ==
    /\ pc = "net"
    /\ jobNet[job] \in disk
    /\ pc' = "call"
    /\ UNCHANGED <<jobNet, catalog, disk, last_network, store, pending, job,
                   results, nlines, alive, exc, line, called, prevNet, seen1,
                   seen2, built>>

\* The file is absent and the catalog lists the network.
NetworkDownload ==
    /\ pc = "net"
    /\ jobNet[job] \notin disk
    /\ jobNet[job] \in catalog
    /\ disk' = DownloadNetwork(Unlink(disk, last_network), jobNet[job])
    /\ last_network' = jobNet[job]
    /\ pc' = "call"
    /\ UNCHANGED <<jobNet, catalog, store, pending, job, results, nlines, alive,
                   exc, line, called, prevNet, seen1, seen2, built>>

\* A lookup miss that is skipped: the loop goes on to the analysis.
NetworkNotFoundIgnored ==
    /\ pc = "net"
    /\ jobNet[job] \notin disk
    /\ jobNet[job] \notin catalog
    /\ disk' = Unlink(disk, last_network)
    /\ pc' = "call"
    /\ UNCHANGED <<jobNet, catalog, last_network, store, pending, job, results,
                   nlines, alive, exc, line, called, prevNet, seen1, seen2,
                   built>>

\* The file is absent and the catalog does not list the network: IndexError.
NetworkNotFound ==
    /\ pc = "net"
    /\ jobNet[job] \notin disk
    /\ jobNet[job] \notin catalog
    /\ disk' = Unlink(disk, last_network)
    /\ Raise("IndexError", NoLine)
    /\ UNCHANGED <<jobNet, catalog, last_network, store, pending, job, alive,
                   called, prevNet, built>>

\* run_lc0_on_position is entered and launches the engine of pass 1.
Pass1Launch ==
    /\ pc = "call"
    /\ called' = called \cup {job}
    /\ alive' = alive + 1
    /\ results' = Empty
    /\ nlines' = 0
    /\ seen1' = [seen1 EXCEPT ![job] = Empty]
    /\ seen2' = [seen2 EXCEPT ![job] = {}]
    /\ pc' = "pass1"
    /\ UNCHANGED <<jobNet, catalog, disk, last_network, store, pending, job,
                   exc, line, prevNet, built>>

\* One line of pass 1.
Pass1Line(l) ==
    /\ pc = "pass1"
    /\ nlines < MaxLines
    /\ IF ~IsMoveLine(l)
       THEN /\ nlines' = nlines + 1
            /\ UNCHANGED <<results, seen1, seen2, pc, exc, line>>
       ELSE LET p == parse_info_line(l) IN
            IF "P" \notin DOMAIN p.values
            THEN Raise("KeyError", l)
            ELSE /\ results' = Put(results, p.move,
                                   InitRecord(p.move, p.values["P"]))
                 /\ seen1' = [seen1 EXCEPT ![job] = Put(@, p.move, p.values["P"])]
                 /\ nlines' = nlines + 1
                 /\ UNCHANGED <<seen2, pc, exc, line>>
    /\ UNCHANGED <<jobNet, catalog, disk, last_network, store, pending, job,
                   alive, called, prevNet, built>>

\* The stream of pass 1 ends: lc0.quit().
Pass1Quit ==
    /\ pc = "pass1"
    /\ alive' = alive - 1
    /\ nlines' = 0
    /\ pc' = "mid"
    /\ UNCHANGED <<jobNet, catalog, disk, last_network, store, pending, job,
                   results, exc, line, called, prevNet, seen1, seen2, built>>

\* The engine of pass 2 is launched.
Pass2Launch ==
    /\ pc = "mid"
    /\ alive' = alive + 1
    /\ nlines' = 0
    /\ pc' = "pass2"
    /\ UNCHANGED <<jobNet, catalog, disk, last_network, store, pending, job,
                   results, exc, line, called, prevNet, seen1, seen2, built>>

\* One line of pass 2.  The statements read values["D"], values["WL"],
\* values["Q"], results[move] and values["M"], in this order; the first one
\* that is missing raises KeyError.
Pass2Line(l) ==
    /\ pc = "pass2"
    /\ nlines < MaxLines
    /\ IF ~IsMoveLine(l)
       THEN /\ nlines' = nlines + 1
            /\ UNCHANGED <<results, seen1, seen2, pc, exc, line>>
       ELSE LET p == parse_info_line(l)
                v == p.values
            IN  IF \/ {"D", "WL", "Q", "M"} \ DOMAIN v # {}
                   \/ p.move \notin DOMAIN results
                THEN Raise("KeyError", l)
                ELSE /\ results' = [results EXCEPT ![p.move] = FillRecord(@, v)]
                     /\ seen2' = [seen2 EXCEPT ![job] = @ \cup {p.move}]
                     /\ nlines' = nlines + 1
                     /\ UNCHANGED <<seen1, pc, exc, line>>
    /\ UNCHANGED <<jobNet, catalog, disk, last_network, store, pending, job,
                   alive, called, prevNet, built>>

\* The stream of pass 2 ends: every record is added to the session, lc0.quit().
AddResults ==
    /\ pc = "pass2"
    /\ pending' = pending \cup Rows(results)
    /\ built' = [built EXCEPT ![job] = Rows(results)]
    /\ alive' = alive - 1
    /\ nlines' = 0
    /\ pc' = "commit"
    /\ UNCHANGED <<jobNet, catalog, disk, last_network, store, job, results,
                   exc, line, called, prevNet, seen1, seen2>>

\* session.commit(), and run_lc0_on_position returns to the loop.
Commit ==
    /\ pc = "commit"
    /\ store' = CommitRows(store, job, pending)
    /\ pending' = {}
    /\ results' = Empty
    /\ pc' = "loop"
    /\ UNCHANGED <<jobNet, catalog, disk, last_network, job, nlines, alive, exc,
                   line, called, prevNet, seen1, seen2, built>>

Next ==
    \/ SelectJob
    \/ ExitNoJob
    \/ NetworkPresent
    \/ NetworkDownload
    \/ NetworkNotFound
    \/ Pass1Launch
    \/ \E l \in EngineLines : Pass1Line(l)
    \/ Pass1Quit
    \/ Pass2Launch
    \/ \E l \in EngineLines : Pass2Line(l)
    \/ AddResults
    \/ Commit

Spec == Init /\ [][Next]_vars

----------------------------------------------------------------------------
\* The program with a catalog that lists every network and an engine whose
\* lines carry every statistic and, in pass 2, only moves pass 1 reported.
\* The program is sequential and never waits: it takes its next step.

ReliableLines == {PlainInfo, NodeLine} \cup FullLines

InitReliable == Init /\ catalog = Networks

Pass1LineReliable == \E l \in ReliableLines : Pass1Line(l)

Pass2LineReliable ==
    \E l \in ReliableLines :
        /\ IsMoveLine(l) => l.move \in DOMAIN results
        /\ Pass2Line(l)

NextReliable ==
    \/ SelectJob
    \/ ExitNoJob
    \/ NetworkPresent
    \/ NetworkDownload
    \/ Pass1Launch
    \/ Pass1LineReliable
    \/ Pass1Quit
    \/ Pass2Launch
    \/ Pass2LineReliable
    \/ AddResults
    \/ Commit

ReliableSpec == InitReliable /\ [][NextReliable]_vars /\ WF_vars(NextReliable)

----------------------------------------------------------------------------
\* Properties.

InRun == pc \in {"call", "pass1", "mid", "pass2", "commit"}

Stats(l) == DOMAIN parse_info_line(l).values

\* C1: every job the loop selects has no persisted Result row at the moment
\* of its selection (so a job with a row is never selected again).
C1_SelectedJobHasNoResults == pc = "net" => store[job] = {}

\* A job is selected while another job already has rows.
C1_Witness ==
    /\ pc = "net"
    /\ \E j \in Jobs : j # job /\ store[j] # {}

\* C2: the table holds, for every job, no row or all the rows its run built;
\* after a run that failed in a pass, it holds no row of the job.
C2_AllOrNothing ==
    /\ \A j \in Jobs : store[j] = {} \/ store[j] = built[j]
    /\ (pc = "raised" /\ exc.at \in {"pass1", "pass2"}) => store[job] = {}

\* Pass 2 of a job failed after another job's two rows were committed.
C2_Witness ==
    /\ pc = "raised"
    /\ exc.at = "pass2"
    /\ \E j \in Jobs : j # job /\ Cardinality(store[j]) = 2

\* C3: after a catalog miss for the selected job, run_lc0_on_position has not
\* been called for it, it has no row, and the program takes no further step;
\* and the analysis of a job runs only while its weights file exists.
C3_MissingNetworkHalts ==
    /\ (pc = "raised" /\ exc.type = "IndexError") =>
          /\ job \notin called
          /\ store[job] = {}
          /\ ~ ENABLED Next
    /\ InRun => jobNet[job] \in disk

\* The run halted on a catalog miss while another job still has no result.
C3_Witness ==
    /\ pc = "raised"
    /\ exc.type = "IndexError"
    /\ jobNet[job] \notin disk
    /\ \E j \in Jobs : j # job /\ store[j] = {}

\* C4: whenever a weights file is fetched, the file the previous job used has
\* been deleted, so that at most one file is retained.
C4_PreviousFileDeleted ==
    [][(pc = "net" /\ pc' = "call" /\ disk' # disk) =>
          (prevNet = NoNetwork \/ prevNet \notin disk')]_vars

\* C5: with a catalog and an engine that never fail, the loop eventually
\* finds no job without results and exits.
C5_LoopExits == <>(pc = "exited" /\ JobsWithoutResults = {})

\* C6: for a job whose run committed, the moves with a row are exactly the
\* moves pass 1 reported, one row each with the policy of pass 1; the row of
\* a move pass 2 did not report has q_value, W, D, L and M unset.
C6_RowsAreMovesOfPass1 ==
    \A j \in Jobs :
        (store[j] # {} \/ (pc = "loop" /\ job = j)) =>
            /\ {r.move : r \in store[j]} = DOMAIN seen1[j]
            /\ Cardinality(store[j]) = Cardinality(DOMAIN seen1[j])
            /\ \A r \in store[j] :
                  /\ r.policy = seen1[j][r.move]
                  /\ r.move \notin seen2[j] =>
                        /\ r.q_value = None
                        /\ r.W = None /\ r.D = None /\ r.L = None
                        /\ r.M = None

\* A committed job with a row filled by pass 2 and a row pass 2 left unset.
C6_Witness ==
    \E j \in Jobs : \E r1, r2 \in store[j] :
        /\ r1.W # None
        /\ r2.W = None /\ r2.move \notin seen2[j] /\ r2.policy = 2

\* C7: a pass-2 line with every statistic whose move is not in the result set
\* of pass 1 does not end the run.
C7_UnknownMoveDropped ==
    [][(pc = "pass2" /\ pc' = "raised") =>
          ~ /\ {"D", "WL", "Q", "M"} \subseteq Stats(line')
            /\ line'.move \notin DOMAIN results]_vars

\* C8: outside the passes no engine process is alive, also after a failure.
C8_NoEngineLeftAlive ==
    pc \in {"loop", "net", "call", "mid", "commit", "exited", "raised"} =>
        alive = 0

\* C9: a pass-2 line for a move of pass 1 that lacks WL or D (printed as the
\* sentinel) and carries Q and M does not end the run.
C9_SentinelSkipsDerivation ==
    [][(pc = "pass2" /\ pc' = "raised") =>
          ~ /\ {"D", "WL"} \ Stats(line') # {}
            /\ {"Q", "M"} \subseteq Stats(line')
            /\ line'.move \in DOMAIN results]_vars

\* C10: no Result row holds a W or an L outside [0, 1].
C10_StoredProbabilitiesInRange ==
    \A j \in Jobs : \A r \in store[j] :
        r.W # None =>
            /\ 0 <= r.W[1] /\ r.W[1] <= Scale
            /\ 0 <= r.L[1] /\ r.L[1] <= Scale

====
